---- MODULE Spec2Model ----
(***************************************************************************)
(* The answer pipeline of backend/chat_functions.py: get_answer and the    *)
(* functions it calls (improve_query, the three elastic_search_* calls,    *)
(* build_prompt, llm, evaluate_relevance, calculate_openai_cost).          *)
(*                                                                         *)
(* Representation.                                                         *)
(*  - A model identifier such as 'openai/gpt-4o' is the list of its        *)
(*    '/'-separated segments, <<"openai", "gpt-4o">> (str.split('/')).     *)
(*    s.startswith(p + '/') for a slash-free p is then                     *)
(*    Len(s) >= 2 /\ s[1] = p, and s.split('/')[-1] is s[Len(s)].          *)
(*  - A prompt is the sequence of the text pieces the template joins.      *)
(*  - A price is an integer count of 10^-7 USD, so that                    *)
(*    (p * 0.0015 + c * 0.002) / 1000 is p * 15 + c * 20.                  *)
(*  - The replies of the model backends and of Elasticsearch are inputs:   *)
(*    every step that makes a network call draws the reply with \E.        *)
(*                                                                         *)
(* Specifications.                                                         *)
(*  - Spec: one invocation at a time over the full input and reply sets.   *)
(*  - SpecTimed: one invocation, every call taking one or two ticks.       *)
(*  - SpecIndexed: one invocation over what index_documents can store.     *)
(*  - SpecTwo: two invocations interleaved, the database written meanwhile.*)
(*  - SpecSession: one browser session, the database tables and the        *)
(*    handlers of backend.py, backend_flask.py and main.py.                 *)
(***************************************************************************)
EXTENDS Integers, Sequences, FiniteSets, TLC

VARIABLES
    pc,              \* control point of the current get_answer invocation
    raw_query,       \* get_answer's argument `query` as passed by the caller
    model_choice,    \* get_answer's argument `model_choice`
    search_type,     \* get_answer's argument `search_type`
    query,           \* the local `query` after line 394
    search_results,  \* the local `search_results`
    prompt,          \* the local `prompt`
    gen,             \* (answer, tokens, response_time) of line 408
    ev,              \* (relevance, explanation, eval_tokens) of line 411
    evaluation,      \* evaluate_relevance's locals `evaluation` and `tokens` (line 297)
    calls,           \* the outbound network calls of this invocation, in order
    outcome,         \* what the invocation handed to its caller
    frames,          \* concurrent invocations: the frame of each
    heard,           \* concurrent invocations: the replies each has received
    db,              \* the tables of the database the request handlers write
    session_state,   \* st.session_state of the browser session
    response         \* what the last request handler that ran handed back

vars == <<pc, raw_query, model_choice, search_type, query, search_results,
          prompt, gen, ev, evaluation, calls, outcome, frames, heard, db,
          session_state, response>>

----------------------------------------------------------------------------
(* Bounds of the model *)

\* largest prompt_tokens / completion_tokens a backend reports
MaxTok == 1

\* number of documents in the index
NumDocs == 6

----------------------------------------------------------------------------
(* Program constants *)

\* "size": 5 of the three search bodies
Size == 5

\* improve_query's default for its parameter `model`
DefaultRefineModel == <<"openai", "gpt-4o-mini">>

----------------------------------------------------------------------------
(* Inputs *)

RawQueries == {"what is diabtes"}

ModelChoices ==
    { <<"ollama", "phi3">>,
      <<"openai", "gpt-3.5-turbo">>,
      <<"openai", "gpt-4o">>,
      <<"openai", "gpt-4o-mini">>,
      <<"openai", "gpt-4">>,
      <<"aws_bedrock", "claude">>,
      <<"unknownprovider", "foo">>,
      <<"openai">> }

SearchTypes == {"Text", "Vector", "Hybrid"}

DocIds == <<"d1", "d2", "d3", "d4", "d5", "d6", "d7", "d8">>

Doc(i) == [id |-> DocIds[i], question |-> "What is it?", answer |-> "It is."]

\* the indexed documents in some ranking order
Ranked == [i \in 1..NumDocs |-> Doc(i)]

\* what a query can match: nothing, or every document
Matches == { SubSeq(Ranked, 1, n) : n \in {0, NumDocs} }

\* wall-clock durations (in ticks) measured around one chat call
Elapsed == {1, 2}

\* a backend reports the three counts separately; the total it reports is the
\* sum of the other two, or off by one
Usages ==
    { [prompt_tokens |-> p, completion_tokens |-> c, total_tokens |-> p + c + d] :
        p \in 0..MaxTok, c \in 0..MaxTok, d \in {0, 1} }

NoUsage == [prompt_tokens |-> 0, completion_tokens |-> 0, total_tokens |-> 0]

----------------------------------------------------------------------------
(* Replies of the collaborators *)

\* Elasticsearch either fails or answers with its ranked matches
SearchRepliesWith(rankings, durations) ==
    { [ok |-> FALSE, ranking |-> <<>>, elapsed |-> 1] } \cup
    { [ok |-> TRUE, ranking |-> m, elapsed |-> e] : m \in rankings, e \in durations }

SearchReplies == SearchRepliesWith(Matches, {1})

\* response.choices[0].message.content of the refinement call
RefinedTexts == {"", "What is diabetes?"}

\* response.choices[0].message.content of the generation call
AnswerTexts == {"Diabetes is a chronic condition."}

\* A chat backend either fails or answers with a content, the usage it
\* reports, and after some wall-clock time. `blank` fills the content of a
\* failed reply, which nothing reads.
ChatRepliesWith(contents, blank, usages, durations) ==
    { [ok |-> FALSE, content |-> blank, usage |-> NoUsage, elapsed |-> 1] } \cup
    { [ok |-> TRUE, content |-> c, usage |-> u, elapsed |-> e] :
        c \in contents, u \in usages, e \in durations }

ChatReplies(contents, blank) == ChatRepliesWith(contents, blank, Usages, Elapsed)

\* The content of the evaluator's reply, by the shape json.loads and the two
\* subscripts of line 301 see:
\*   form "none"    message.content is None
\*   form "prose"   text that is no JSON document (also JSON in a code block)
\*   form "object"  a JSON object; has_rel / has_expl say which of the keys
\*                  "Relevance" / "Explanation" it holds, rel / expl the values
\*   form "array", "number"   a JSON document that is no object
EvalShape(form, has_rel, rel, has_expl, expl) ==
    [form |-> form, has_rel |-> has_rel, rel |-> rel,
     has_expl |-> has_expl, expl |-> expl]

EmittedRelevance == {"NON_RELEVANT", "PARTLY_RELEVANT", "RELEVANT", "UNKNOWN", "MAYBE"}

EvalContents ==
    { EvalShape(f, FALSE, "", FALSE, "") :
        f \in {"none", "prose", "array", "number"} } \cup
    { EvalShape("object", TRUE, r, TRUE, "The answer addresses the question.") :
        r \in EmittedRelevance } \cup
    { EvalShape("object", TRUE, "RELEVANT", FALSE, ""),
      EvalShape("object", FALSE, "", TRUE, "The answer addresses the question.") }

----------------------------------------------------------------------------
(* How a call ends: it returns a value or raises, and either way it has     *)
(* made some network calls.                                                 *)

Return(value, made) == [raised |-> FALSE, exc |-> "", value |-> value, calls |-> made]

Raise(exc, made) == [raised |-> TRUE, exc |-> exc, calls |-> made]

\* one outbound network call, as the log keeps it, with the wall-clock time
\* it took; `stage` is filled in by the step of get_answer that made the call
NetCall(api, via, model, input, ok, hits, elapsed) ==
    [api |-> api, via |-> via, model |-> model, input |-> input,
     ok |-> ok, hits |-> hits, elapsed |-> elapsed, stage |-> ""]

At(stage, made) == [i \in 1..Len(made) |-> [made[i] EXCEPT !.stage = stage]]

----------------------------------------------------------------------------
(* Retrieval *)

Take(s, n) == SubSeq(s, 1, IF Len(s) < n THEN Len(s) ELSE n)

\* model.encode(query): a local computation, a function of the text alone
encode(text) == <<"embedding of", text>>

es_search(fn, input, reply) ==
    IF reply.ok
    THEN LET hits == Take(reply.ranking, Size)
         IN  Return(hits, <<NetCall("search", fn, "", input, TRUE, hits, reply.elapsed)>>)
    ELSE Raise("ConnectionError",
               <<NetCall("search", fn, "", input, FALSE, <<>>, reply.elapsed)>>)

elastic_search_text(q, reply) ==
    es_search("elastic_search_text", <<q>>, reply)

elastic_search_knn(field, vector, reply) ==
    es_search("elastic_search_knn", <<field>> \o vector, reply)

elastic_search_hybrid(field, q, vector, reply) ==
    es_search("elastic_search_hybrid", <<field, q>> \o vector, reply)

----------------------------------------------------------------------------
(* Prompt construction *)

PromptRole == "You're a doctor assistant chat bot. Answer the QUESTION based on the CONTEXT from the FAQ database."

PromptOnlyContext == "Use only the facts from the CONTEXT when answering the QUESTION."

PromptFallback == "If you do not know, state 'sorry I don't have an answer to that question'."

RenderDoc(doc) ==
    <<"id: ", doc.id, "\nquestion: ", doc.question, "\nanswer: ", doc.answer>>

RECURSIVE JoinDocsLastFirst(_)
\* the context with the candidates listed from the last rank to the first
JoinDocsLastFirst(docs) ==
    IF docs = <<>> THEN <<>>
    ELSE IF Len(docs) = 1 THEN RenderDoc(docs[1])
    ELSE JoinDocsLastFirst(Tail(docs)) \o <<"\n\n">> \o RenderDoc(docs[1])

RECURSIVE JoinDocs(_)
JoinDocs(docs) ==
    IF docs = <<>> THEN <<>>
    ELSE IF Len(docs) = 1 THEN RenderDoc(docs[1])
    ELSE RenderDoc(docs[1]) \o <<"\n\n">> \o JoinDocs(Tail(docs))

\* build_prompt giving no prompt when there is no context to put in it
build_prompt_needs_context(q, results) ==
    IF results = <<>> THEN <<>>
    ELSE <<PromptRole, PromptOnlyContext, PromptFallback, "QUESTION: ", q, "CONTEXT:">>
            \o JoinDocs(results)

build_prompt(q, results) ==
    <<PromptRole, PromptOnlyContext, PromptFallback, "QUESTION: ", q, "CONTEXT:">>
        \o JoinDocs(results)

----------------------------------------------------------------------------
(* Generation *)

\* model_choice.startswith(provider + '/')
startswith(choice, provider) == Len(choice) >= 2 /\ choice[1] = provider

\* model_choice.split('/')[-1]
model_name(choice) == choice[Len(choice)]

\* llm without its final `else: raise ValueError`: an unknown provider is
\* sent to the OpenAI client
llm_no_else(p, choice, reply) ==
    LET client == IF startswith(choice, "ollama") THEN "ollama_client" ELSE "openai_client"
        call(ok) == NetCall("chat.completions.create", client, model_name(choice),
                            p, ok, <<>>, reply.elapsed)
    IN  IF ~reply.ok THEN Raise("APIError", <<call(FALSE)>>)
        ELSE Return([answer |-> reply.content,
                     tokens |-> [prompt_tokens |-> reply.usage.prompt_tokens,
                                 completion_tokens |-> reply.usage.completion_tokens,
                                 total_tokens |-> reply.usage.total_tokens],
                     response_time |-> reply.elapsed],
                    <<call(TRUE)>>)

\* llm with the backend call wrapped in a try/except that answers with the
\* reply's blank content instead of raising
llm_swallow(p, choice, reply) ==
    LET client ==
            IF startswith(choice, "ollama") THEN "ollama_client"
            ELSE IF startswith(choice, "openai") THEN "openai_client"
            ELSE IF startswith(choice, "aws_bedrock") THEN "openai_client"
            ELSE ""
        call(ok) == NetCall("chat.completions.create", client, model_name(choice),
                            p, ok, <<>>, reply.elapsed)
    IN  IF client = "" THEN Raise("ValueError", <<>>)
        ELSE Return([answer |-> reply.content,
                     tokens |-> [prompt_tokens |-> reply.usage.prompt_tokens,
                                 completion_tokens |-> reply.usage.completion_tokens,
                                 total_tokens |-> reply.usage.total_tokens],
                     response_time |-> reply.elapsed],
                    <<call(reply.ok)>>)

llm(p, choice, reply) ==
    LET client ==
            IF startswith(choice, "ollama") THEN "ollama_client"
            ELSE IF startswith(choice, "openai") THEN "openai_client"
            ELSE IF startswith(choice, "aws_bedrock") THEN "openai_client"
            ELSE ""
        call(ok) == NetCall("chat.completions.create", client, model_name(choice),
                            p, ok, <<>>, reply.elapsed)
    IN  IF client = "" THEN Raise("ValueError", <<>>)
        ELSE IF ~reply.ok THEN Raise("APIError", <<call(FALSE)>>)
        ELSE Return([answer |-> reply.content,
                     tokens |-> [prompt_tokens |-> reply.usage.prompt_tokens,
                                 completion_tokens |-> reply.usage.completion_tokens,
                                 total_tokens |-> reply.usage.total_tokens],
                     response_time |-> reply.elapsed],
                    <<call(TRUE)>>)

----------------------------------------------------------------------------
(* Query refinement *)

improve_query(user_query, model, reply) ==
    LET r == llm(<<"The following is a user's query: ", user_query,
                   "Please rewrite the query to improve clarity, fix any spelling or grammar mistakes, and maintain the same context.",
                   "Rewritten query:">>, model, reply)
    IN  IF r.raised THEN r ELSE Return(r.value.answer, r.calls)

----------------------------------------------------------------------------
(* Relevance evaluation *)

\* json.loads(content): None is no str (TypeError), text that is no JSON
\* document raises JSONDecodeError, a JSON document becomes a Python value
json_loads(content) ==
    IF content.form = "none" THEN Raise("TypeError", <<>>)
    ELSE IF content.form = "prose" THEN Raise("JSONDecodeError", <<>>)
    ELSE Return([type |-> CASE content.form = "object" -> "dict"
                            [] content.form = "array"  -> "list"
                            [] content.form = "number" -> "int",
                 has_rel |-> content.has_rel, rel |-> content.rel,
                 has_expl |-> content.has_expl, expl |-> content.expl], <<>>)

\* value[key] for a str key: a dict without the key raises KeyError, a list
\* and a number raise TypeError
getitem(value, key) ==
    IF value.type # "dict" THEN Raise("TypeError", <<>>)
    ELSE IF key = "Relevance"
         THEN IF value.has_rel THEN Return(value.rel, <<>>) ELSE Raise("KeyError", <<>>)
         ELSE IF value.has_expl THEN Return(value.expl, <<>>) ELSE Raise("KeyError", <<>>)

\* lines 276-296: prompt_template.format(question=question, answer=answer)
evaluation_prompt(question, answer) ==
    <<"You are an expert evaluator for a Retrieval-Augmented Generation (RAG) system.",
      "Question: ", question, "Generated Answer: ", answer,
      "provide your evaluation in parsable JSON without using code blocks">>

\* the model the caller asked the answer from
RequestedModel == model_choice

\* the model line 297 passes to llm
EvaluationModel == <<"openai", "gpt-4o-mini">>

evaluate_relevance(question, answer, reply) ==
    LET r == llm(evaluation_prompt(question, answer), EvaluationModel, reply)
    IN  IF r.raised THEN r
        ELSE LET tokens == r.value.tokens
                 json_eval == json_loads(r.value.answer)
             IN  IF json_eval.raised
                 THEN IF json_eval.exc = "JSONDecodeError"
                      THEN Return([relevance |-> "UNKNOWN",
                                   explanation |-> "Failed to parse evaluation",
                                   tokens |-> tokens], r.calls)
                      ELSE Raise(json_eval.exc, r.calls)
                 ELSE LET rel == getitem(json_eval.value, "Relevance")
                          expl == getitem(json_eval.value, "Explanation")
                      IN  IF rel.raised THEN Raise(rel.exc, r.calls)
                          ELSE IF expl.raised THEN Raise(expl.exc, r.calls)
                          ELSE Return([relevance |-> rel.value,
                                       explanation |-> expl.value,
                                       tokens |-> tokens], r.calls)

----------------------------------------------------------------------------
(* Cost *)

\* calculate_openai_cost pricing every other model as gpt-4o instead of raising
calculate_openai_cost_guess(choice, tokens) ==
    IF choice = <<"openai", "gpt-3.5-turbo">>
    THEN Return(tokens.prompt_tokens * 15 + tokens.completion_tokens * 20, <<>>)
    ELSE Return(tokens.prompt_tokens * 300 + tokens.completion_tokens * 600, <<>>)

\* calculate_openai_cost crediting the completion tokens instead of charging them
calculate_openai_cost_credit(choice, tokens) ==
    IF choice = <<"openai", "gpt-3.5-turbo">>
    THEN Return(tokens.prompt_tokens * 15 - tokens.completion_tokens * 20, <<>>)
    ELSE IF choice \in {<<"openai", "gpt-4o">>, <<"openai", "gpt-4o-mini">>}
    THEN Return(tokens.prompt_tokens * 300 - tokens.completion_tokens * 600, <<>>)
    ELSE Raise("ValueError", <<>>)

\* calculate_openai_cost charging the reported total at the completion price
calculate_openai_cost_by_total(choice, tokens) ==
    IF choice = <<"openai", "gpt-3.5-turbo">>
    THEN Return(tokens.total_tokens * 20, <<>>)
    ELSE IF choice \in {<<"openai", "gpt-4o">>, <<"openai", "gpt-4o-mini">>}
    THEN Return(tokens.total_tokens * 600, <<>>)
    ELSE Raise("ValueError", <<>>)

calculate_openai_cost(choice, tokens) ==
    IF choice = <<"openai", "gpt-3.5-turbo">>
    THEN Return(tokens.prompt_tokens * 15 + tokens.completion_tokens * 20, <<>>)
    ELSE IF choice \in {<<"openai", "gpt-4o">>, <<"openai", "gpt-4o-mini">>}
    THEN Return(tokens.prompt_tokens * 300 + tokens.completion_tokens * 600, <<>>)
    ELSE Raise("ValueError", <<>>)

----------------------------------------------------------------------------
(* get_answer, one step per statement that calls a collaborator. A frame    *)
(* is the state of one invocation: its arguments, its locals, the calls it  *)
(* has made and what it handed to its caller. Each step is a function from  *)
(* the frame and the collaborator's reply to the next frame.                *)

NoGen == [answer |-> "", tokens |-> NoUsage, response_time |-> 0]

NoEval == [relevance |-> "", explanation |-> "", tokens |-> NoUsage]

\* evaluate_relevance has not assigned its locals
NoEvaluation == [content |-> EvalShape("unset", FALSE, "", FALSE, ""), tokens |-> NoUsage]

Pending == [kind |-> "pending"]

\* no invocation is running
IdleFrame ==
    [pc |-> "idle", raw_query |-> "", model_choice |-> <<>>, search_type |-> "",
     query |-> "", search_results |-> <<>>, prompt |-> <<>>, gen |-> NoGen,
     ev |-> NoEval, evaluation |-> NoEvaluation, calls |-> <<>>, outcome |-> Pending]

\* get_answer(q, m, s) has been entered
EnteredFrame(q, m, s) ==
    [IdleFrame EXCEPT !.pc = "improve_query", !.raw_query = q, !.query = q,
                      !.model_choice = m, !.search_type = s]

\* an exception leaves get_answer: nothing catches it there
Propagate(f, stage, r) ==
    [f EXCEPT !.pc = "raised",
              !.outcome = [kind |-> "raise", exc |-> r.exc, at |-> stage],
              !.calls = f.calls \o At(stage, r.calls)]

\* the refinement step calling improve_query and dropping what it returns
refine_step_keeps_raw(f, reply) ==
    LET r == improve_query(f.query, DefaultRefineModel, reply)
    IN  IF r.raised THEN Propagate(f, "improve_query", r)
        ELSE [f EXCEPT !.calls = f.calls \o At("improve_query", r.calls),
                       !.pc = "search_vector"]

\* the refinement step handing over to generation, retrieval left out
refine_step_skips_retrieval(f, reply) ==
    LET r == improve_query(f.query, DefaultRefineModel, reply)
    IN  IF r.raised THEN Propagate(f, "improve_query", r)
        ELSE [f EXCEPT !.query = r.value,
                       !.calls = f.calls \o At("improve_query", r.calls),
                       !.pc = "llm"]

\* line 394: query = improve_query(query)
refine_step(f, reply) ==
    LET r == improve_query(f.query, DefaultRefineModel, reply)
    IN  IF r.raised THEN Propagate(f, "improve_query", r)
        ELSE [f EXCEPT !.query = r.value,
                       !.calls = f.calls \o At("improve_query", r.calls),
                       !.pc = "search_vector"]

\* lines 397-399: if search_type == 'Vector': ...
search_vector_step(f, reply) ==
    IF f.search_type = "Vector"
    THEN LET vector == encode(f.query)
             r == elastic_search_knn("question_vector", vector, reply)
         IN  IF r.raised THEN Propagate(f, "search_vector", r)
             ELSE [f EXCEPT !.search_results = r.value,
                            !.calls = f.calls \o At("search_vector", r.calls),
                            !.pc = "search_hybrid_else"]
    ELSE [f EXCEPT !.pc = "search_hybrid_else"]

\* lines 400-404 with the text search run whatever the search type
search_hybrid_else_step_text_always(f, reply) ==
    LET r == elastic_search_text(f.query, reply)
    IN  IF r.raised THEN Propagate(f, "search_hybrid_else", r)
        ELSE [f EXCEPT !.search_results = r.value,
                       !.calls = f.calls \o At("search_hybrid_else", r.calls),
                       !.pc = "llm"]

\* lines 400-404: if search_type == 'Hybrid': ... else: ...
search_hybrid_else_step(f, reply) ==
    LET vector == encode(f.query)
        r == IF f.search_type = "Hybrid"
             THEN elastic_search_hybrid("question_vector", f.query, vector, reply)
             ELSE elastic_search_text(f.query, reply)
    IN  IF r.raised THEN Propagate(f, "search_hybrid_else", r)
        ELSE [f EXCEPT !.search_results = r.value,
                       !.calls = f.calls \o At("search_hybrid_else", r.calls),
                       !.pc = "llm"]

\* lines 407-408: prompt = build_prompt(...); answer, tokens, response_time = llm(...)
generate_step(f, reply) ==
    LET p == build_prompt(f.query, f.search_results)
        r == llm(p, f.model_choice, reply)
        g == [f EXCEPT !.prompt = p]
    IN  IF r.raised THEN Propagate(g, "llm", r)
        ELSE [g EXCEPT !.gen = r.value,
                       !.calls = f.calls \o At("llm", r.calls),
                       !.pc = "evaluate_relevance"]

\* line 411: relevance, explanation, eval_tokens = evaluate_relevance(query, answer)
evaluate_step(f, reply) ==
    LET r == evaluate_relevance(f.query, f.gen.answer, reply)
        \* line 297 inside it: evaluation, tokens, _ = llm(...)
        l == llm(evaluation_prompt(f.query, f.gen.answer), EvaluationModel, reply)
        g == IF l.raised THEN f
             ELSE [f EXCEPT !.evaluation = [content |-> l.value.answer,
                                            tokens |-> l.value.tokens]]
    IN  IF r.raised THEN Propagate(g, "evaluate_relevance", r)
        ELSE [g EXCEPT !.ev = r.value,
                       !.calls = f.calls \o At("evaluate_relevance", r.calls),
                       !.pc = "calculate_openai_cost"]

RECURSIVE TotalElapsed(_)
\* the time the given calls took, added up
TotalElapsed(cs) == IF cs = <<>> THEN 0 ELSE cs[1].elapsed + TotalElapsed(Tail(cs))

\* the return statement reporting the time of every call of the invocation
cost_and_return_step_end_to_end(f) ==
    LET r == calculate_openai_cost(f.model_choice, f.gen.tokens)
    IN  IF r.raised THEN Propagate(f, "calculate_openai_cost", r)
        ELSE [f EXCEPT
                !.pc = "returned",
                !.outcome =
                    [kind |-> "return",
                     value |-> [answer |-> f.gen.answer,
                                response_time |-> TotalElapsed(f.calls),
                                relevance |-> f.ev.relevance,
                                relevance_explanation |-> f.ev.explanation,
                                model_used |-> f.model_choice,
                                prompt_tokens |-> f.gen.tokens.prompt_tokens,
                                completion_tokens |-> f.gen.tokens.completion_tokens,
                                total_tokens |-> f.gen.tokens.total_tokens,
                                eval_prompt_tokens |-> f.ev.tokens.prompt_tokens,
                                eval_completion_tokens |-> f.ev.tokens.completion_tokens,
                                eval_total_tokens |-> f.ev.tokens.total_tokens,
                                openai_cost |-> r.value]]]

\* lines 414-429: openai_cost = calculate_openai_cost(...); return {...}
cost_and_return_step(f) ==
    LET r == calculate_openai_cost(f.model_choice, f.gen.tokens)
    IN  IF r.raised THEN Propagate(f, "calculate_openai_cost", r)
        ELSE [f EXCEPT
                !.pc = "returned",
                !.outcome =
                    [kind |-> "return",
                     value |-> [answer |-> f.gen.answer,
                                response_time |-> f.gen.response_time,
                                relevance |-> f.ev.relevance,
                                relevance_explanation |-> f.ev.explanation,
                                model_used |-> f.model_choice,
                                prompt_tokens |-> f.gen.tokens.prompt_tokens,
                                completion_tokens |-> f.gen.tokens.completion_tokens,
                                total_tokens |-> f.gen.tokens.total_tokens,
                                eval_prompt_tokens |-> f.ev.tokens.prompt_tokens,
                                eval_completion_tokens |-> f.ev.tokens.completion_tokens,
                                eval_total_tokens |-> f.ev.tokens.total_tokens,
                                openai_cost |-> r.value]]]

----------------------------------------------------------------------------
(* One invocation at a time *)

\* st.session_state before the page has run
NoSession == [started |-> FALSE, conversation_id |-> "", count |-> 0]

\* no request handler has run
NoResponse == [op |-> ""]

\* init_db: both tables created empty
EmptyTables == [conversations |-> {}, feedback |-> <<>>]

\* the frame of the running invocation
Frame ==
    [pc |-> pc, raw_query |-> raw_query, model_choice |-> model_choice,
     search_type |-> search_type, query |-> query, search_results |-> search_results,
     prompt |-> prompt, gen |-> gen, ev |-> ev, evaluation |-> evaluation,
     calls |-> calls, outcome |-> outcome]

Becomes(f) ==
    /\ pc' = f.pc
    /\ raw_query' = f.raw_query
    /\ model_choice' = f.model_choice
    /\ search_type' = f.search_type
    /\ query' = f.query
    /\ search_results' = f.search_results
    /\ prompt' = f.prompt
    /\ gen' = f.gen
    /\ ev' = f.ev
    /\ evaluation' = f.evaluation
    /\ calls' = f.calls
    /\ outcome' = f.outcome

Init ==
    /\ pc = "idle"
    /\ raw_query = ""
    /\ model_choice = <<>>
    /\ search_type = ""
    /\ query = ""
    /\ search_results = <<>>
    /\ prompt = <<>>
    /\ gen = NoGen
    /\ ev = NoEval
    /\ evaluation = NoEvaluation
    /\ calls = <<>>
    /\ outcome = Pending
    /\ frames = <<>>
    /\ heard = <<>>
    /\ db = EmptyTables
    /\ session_state = NoSession
    /\ response = NoResponse

\* a caller invokes get_answer(query, model_choice, search_type)
InvokeWith(queries, choices, modes) ==
    /\ pc = "idle"
    /\ \E q \in queries, m \in choices, s \in modes : Becomes(EnteredFrame(q, m, s))
    /\ UNCHANGED <<frames, heard, db, session_state, response>>

RefineWith(replies) ==
    /\ pc = "improve_query"
    /\ \E reply \in replies : Becomes(refine_step(Frame, reply))
    /\ UNCHANGED <<frames, heard, db, session_state, response>>

SearchVectorWith(replies) ==
    /\ pc = "search_vector"
    /\ \E reply \in replies : Becomes(search_vector_step(Frame, reply))
    /\ UNCHANGED <<frames, heard, db, session_state, response>>

SearchHybridElseWith(replies) ==
    /\ pc = "search_hybrid_else"
    /\ \E reply \in replies : Becomes(search_hybrid_else_step(Frame, reply))
    /\ UNCHANGED <<frames, heard, db, session_state, response>>

GenerateWith(replies) ==
    /\ pc = "llm"
    /\ \E reply \in replies : Becomes(generate_step(Frame, reply))
    /\ UNCHANGED <<frames, heard, db, session_state, response>>

EvaluateWith(replies) ==
    /\ pc = "evaluate_relevance"
    /\ \E reply \in replies : Becomes(evaluate_step(Frame, reply))
    /\ UNCHANGED <<frames, heard, db, session_state, response>>

CostAndReturn ==
    /\ pc = "calculate_openai_cost"
    /\ Becomes(cost_and_return_step(Frame))
    /\ UNCHANGED <<frames, heard, db, session_state, response>>

\* the caller has the record or the exception; the frame of get_answer, its
\* locals with it, is gone
Leave ==
    /\ pc \in {"returned", "raised"}
    /\ Becomes(IdleFrame)
    /\ UNCHANGED <<frames, heard, db, session_state, response>>

\* The replies of the refinement and evaluation calls and of Elasticsearch
\* take one tick here: get_answer reads none of these durations.
Invoke == InvokeWith(RawQueries, ModelChoices, SearchTypes)

Refine == RefineWith(ChatRepliesWith(RefinedTexts, "", Usages, {1}))

SearchVector == SearchVectorWith(SearchReplies)

SearchHybridElse == SearchHybridElseWith(SearchReplies)

Generate == GenerateWith(ChatReplies(AnswerTexts, ""))

Evaluate ==
    EvaluateWith(ChatRepliesWith(EvalContents, EvalShape("none", FALSE, "", FALSE, ""),
                                 Usages, {1}))

Next ==
    \/ Invoke
    \/ Refine
    \/ SearchVector
    \/ SearchHybridElse
    \/ Generate
    \/ Evaluate
    \/ CostAndReturn
    \/ Leave

Spec == Init /\ [][Next]_vars

----------------------------------------------------------------------------
(* Vocabulary of the properties *)

SearchCalls == SelectSeq(calls, LAMBDA c : c.api = "search")

\* the search function each mode names
SelectedSearch(mode) ==
    CASE mode = "Text"   -> "elastic_search_text"
      [] mode = "Vector" -> "elastic_search_knn"
      [] mode = "Hybrid" -> "elastic_search_hybrid"

\* the invocation ended with an exception raised at `stage`
RaisedAt(stage) == pc = "raised" /\ outcome.kind = "raise" /\ outcome.at = stage

RecognizedProviders == {"ollama", "openai", "aws_bedrock"}

Provider(choice) == IF Len(choice) >= 2 THEN choice[1] ELSE ""

\* the models the price table of calculate_openai_cost lists
PricedModels == {<<"openai", "gpt-3.5-turbo">>, <<"openai", "gpt-4o">>, <<"openai", "gpt-4o-mini">>}

\* calculate_openai_cost has been applied in this invocation
CostApplied == pc = "returned" \/ RaisedAt("calculate_openai_cost")

\* evaluate_relevance has received the evaluator's reply
EvaluatorReplied == evaluation.content.form # "unset"

\* the evaluator's reply is the structured output the prompt asks for
WellFormed(content) == content.form = "object" /\ content.has_rel /\ content.has_expl

Verdicts == {"NON_RELEVANT", "PARTLY_RELEVANT", "RELEVANT", "UNKNOWN"}

----------------------------------------------------------------------------
(* C1 - Retrieval mode selection is an exhaustive, mutually exclusive       *)
(* three-way dispatch: when retrieval is done and build_prompt is about to  *)
(* run, exactly one search call has been made, it is the call of the        *)
(* selected mode, and search_results is what that call returned.            *)
C1_ExclusiveDispatch ==
    pc = "llm" =>
        /\ Len(SearchCalls) = 1
        /\ SearchCalls[1].via = SelectedSearch(search_type)
        /\ search_results = SearchCalls[1].hits

(* C2 - llm called with a model identifier whose provider prefix is not     *)
(* recognized raises ValueError and has made no network call to a model     *)
(* backend: the generation step of such an invocation logs no call, never   *)
(* reaches a later stage, and ends with ValueError.                         *)
C2_UnknownProviderFailsFast ==
    (pc # "idle" /\ Provider(model_choice) \notin RecognizedProviders) =>
        /\ \A i \in 1..Len(calls) : calls[i].stage # "llm"
        /\ pc \notin {"evaluate_relevance", "calculate_openai_cost", "returned"}
        /\ RaisedAt("llm") => outcome.exc = "ValueError"

C2_Witness ==
    /\ RaisedAt("llm")
    /\ outcome.exc = "ValueError"
    /\ model_choice = <<"unknownprovider", "foo">>
    /\ prompt = build_prompt(query, search_results)

(* C3 - whenever get_answer ends in a configuration error (ValueError), no  *)
(* network call (refine, search, generation, evaluation) has been issued in *)
(* that invocation.                                                         *)
C3_ConfigErrorBeforeNetwork ==
    (pc = "raised" /\ outcome.exc = "ValueError") => calls = <<>>

(* C4 - the cost of a model of a backend without a pricing entry (any       *)
(* provider but openai) is 0, for all token usages: the cost step returns   *)
(* and the record's openai_cost is 0.                                       *)
C4_UnpricedCostsZero ==
    (CostApplied /\ Provider(model_choice) # "openai") =>
        /\ pc = "returned"
        /\ outcome.value.openai_cost = 0

(* C5 - for a model of the priced provider (openai) whose name has no entry *)
(* in the price table, the cost step raises ValueError and never returns a  *)
(* price.                                                                   *)
C5_UnknownPricedModelRaises ==
    (Provider(model_choice) = "openai" /\ model_choice \notin PricedModels) =>
        /\ pc # "returned"
        /\ RaisedAt("calculate_openai_cost") => outcome.exc = "ValueError"

C5_Witness ==
    /\ RaisedAt("calculate_openai_cost")
    /\ outcome.exc = "ValueError"
    /\ model_choice = <<"openai", "gpt-4">>
    /\ gen.tokens.prompt_tokens > 0

(* C6 - evaluate_relevance never raises to its caller, whatever the         *)
(* evaluator replies and also when the evaluator call fails.                *)
C6_EvaluateNeverRaises ==
    ~RaisedAt("evaluate_relevance")

(* C7 - for every evaluator output that is not the structured output asked  *)
(* for, evaluate_relevance returns exactly ("UNKNOWN", "Failed to parse     *)
(* evaluation", tokens of the evaluation call).                             *)
C7_MalformedDegradesToUnknown ==
    (EvaluatorReplied /\ ~WellFormed(evaluation.content)) =>
        /\ ~RaisedAt("evaluate_relevance")
        /\ ev = [relevance |-> "UNKNOWN",
                 explanation |-> "Failed to parse evaluation",
                 tokens |-> evaluation.tokens]

(* C8 - the verdict evaluate_relevance returns, and the record stores, is   *)
(* one of the four categories, and it is UNKNOWN only when parsing the      *)
(* evaluator's output failed.                                               *)
C8_VerdictDomain ==
    /\ pc \in {"calculate_openai_cost", "returned"} =>
        /\ ev.relevance \in Verdicts
        /\ ev.relevance = "UNKNOWN" => ~WellFormed(evaluation.content)
    /\ pc = "returned" =>
        /\ outcome.value.relevance \in Verdicts
        /\ outcome.value.relevance = "UNKNOWN" => ~WellFormed(evaluation.content)

(* C9 - refinement falls back to the raw query when the refinement call     *)
(* fails or returns an empty string: it never aborts get_answer, and the    *)
(* query the later stages use is the non-empty refined text or the raw      *)
(* query, never the empty string.                                           *)
C9_RefineFallsBack ==
    /\ ~RaisedAt("improve_query")
    /\ pc \in {"search_vector", "search_hybrid_else", "llm", "evaluate_relevance",
               "calculate_openai_cost", "returned"} =>
        /\ query # ""
        /\ query = raw_query \/ query \in RefinedTexts

(* C10 - if a retrieval call or the generation call fails, get_answer ends  *)
(* with the exception of that call: the failed call is the last call made,  *)
(* no record is returned, and neither evaluation nor cost has run.          *)
C10_RetrievalOrGenerationFailureIsFatal ==
    /\ \A i \in 1..Len(calls) :
        (~calls[i].ok /\ calls[i].stage \in {"search_vector", "search_hybrid_else", "llm"}) =>
            /\ RaisedAt(calls[i].stage)
            /\ i = Len(calls)
    /\ (RaisedAt("search_vector") \/ RaisedAt("search_hybrid_else") \/ RaisedAt("llm")) =>
        /\ gen = NoGen
        /\ ev = NoEval
        /\ evaluation = NoEvaluation
        /\ \A i \in 1..Len(calls) :
            calls[i].stage \notin {"evaluate_relevance", "calculate_openai_cost"}

C10_Witness ==
    /\ RaisedAt("llm")
    /\ outcome.exc = "APIError"
    /\ Len(calls) = 3
    /\ ~calls[3].ok
    /\ calls[3].stage = "llm"

----------------------------------------------------------------------------
(* The order of the stages *)

\* the place of each calling stage in get_answer
StageRank(stage) ==
    CASE stage = "improve_query"      -> 1
      [] stage = "search_vector"      -> 2
      [] stage = "search_hybrid_else" -> 3
      [] stage = "llm"                -> 4
      [] stage = "evaluate_relevance" -> 5

RetrievalStages == {"search_vector", "search_hybrid_else"}

\* the stages that have called out so far, in the order of their calls
StagesCalled == [i \in 1..Len(calls) |-> calls[i].stage]

\* C11: every invocation runs refine, retrieve, build prompt, generate,
\* evaluate, estimate cost, assemble record in that order. The calls of an
\* invocation are made in strictly ascending stage order and each is made
\* only after every earlier call has returned successfully; the generation
\* call is made only after a retrieval call has returned, with the prompt
\* built from what the last retrieval call returned; the evaluation call
\* directly follows a successful generation call; the cost is estimated and
\* the record assembled only after all of these.
C11_FixedStageOrder ==
    /\ \A i, j \in 1..Len(calls) :
          i < j => /\ StageRank(calls[i].stage) < StageRank(calls[j].stage)
                   /\ calls[i].ok
    /\ \A j \in 1..Len(calls) :
          /\ calls[j].stage \in RetrievalStages =>
                \E i \in 1..(j - 1) : calls[i].stage = "improve_query"
          /\ calls[j].stage = "llm" =>
                /\ j > 1
                /\ calls[j - 1].stage \in RetrievalStages
                /\ calls[j].input = build_prompt(query, calls[j - 1].hits)
          /\ calls[j].stage = "evaluate_relevance" =>
                /\ j > 1
                /\ calls[j - 1].stage = "llm"
                /\ calls[j].input = evaluation_prompt(query, gen.answer)
    /\ pc \in {"calculate_openai_cost", "returned"} \/ RaisedAt("calculate_openai_cost") =>
          /\ Len(calls) >= 4
          /\ calls[Len(calls)].stage = "evaluate_relevance"
          /\ calls[Len(calls)].ok
    /\ pc = "returned" =>
          StagesCalled \in
            { <<"improve_query", "search_hybrid_else", "llm", "evaluate_relevance">>,
              <<"improve_query", "search_vector", "search_hybrid_else", "llm",
                "evaluate_relevance">> }

\* an invocation has gone through every stage and returned its record
C11_Witness ==
    /\ pc = "returned"
    /\ Len(calls) = 5
    /\ outcome.value.answer = gen.answer

----------------------------------------------------------------------------
(* The reported latency. Every call takes one or two ticks here; the token *)
(* counts, the texts and the ranking are held fixed.                        *)

TimedUsages ==
    { u \in Usages : /\ u.prompt_tokens = MaxTok
                     /\ u.completion_tokens = MaxTok
                     /\ u.total_tokens = u.prompt_tokens + u.completion_tokens }

TimedChoices == {<<"openai", "gpt-4o-mini">>, <<"openai", "gpt-4o">>}

TimedSearchReplies == SearchRepliesWith({SubSeq(Ranked, 1, NumDocs)}, Elapsed)

TimedEvalContents == { c \in EvalContents : c.form = "object" /\ c.rel = "RELEVANT" }

InvokeTimed == InvokeWith(RawQueries, TimedChoices, SearchTypes)

RefineTimed == RefineWith(ChatRepliesWith(RefinedTexts \ {""}, "", TimedUsages, Elapsed))

SearchVectorTimed == SearchVectorWith(TimedSearchReplies)

SearchHybridElseTimed == SearchHybridElseWith(TimedSearchReplies)

GenerateTimed == GenerateWith(ChatRepliesWith(AnswerTexts, "", TimedUsages, Elapsed))

EvaluateTimed ==
    EvaluateWith(ChatRepliesWith(TimedEvalContents, EvalShape("none", FALSE, "", FALSE, ""),
                                 TimedUsages, Elapsed))

NextTimed ==
    \/ InvokeTimed
    \/ RefineTimed
    \/ SearchVectorTimed
    \/ SearchHybridElseTimed
    \/ GenerateTimed
    \/ EvaluateTimed
    \/ CostAndReturn
    \/ Leave

SpecTimed == Init /\ [][NextTimed]_vars

\* the calls made at `stage`
CallsAt(stage) == SelectSeq(calls, LAMBDA c : c.stage = stage)

----------------------------------------------------------------------------
(* Token accounting *)

\* C13: in every returned record, for the generation breakdown and for the
\* evaluation breakdown alike, total_tokens = prompt_tokens +
\* completion_tokens and the three counts are non-negative, whatever counts
\* the backend reported.
C13_TotalIsSumOfParts ==
    pc = "returned" =>
        LET v == outcome.value
        IN  /\ v.total_tokens = v.prompt_tokens + v.completion_tokens
            /\ v.eval_total_tokens = v.eval_prompt_tokens + v.eval_completion_tokens
            /\ v.prompt_tokens >= 0 /\ v.completion_tokens >= 0 /\ v.total_tokens >= 0
            /\ v.eval_prompt_tokens >= 0 /\ v.eval_completion_tokens >= 0
            /\ v.eval_total_tokens >= 0

----------------------------------------------------------------------------
(* What the index holds. The documents are fetched from a JSON file whose   *)
(* `id` fields nothing checks, and index_documents stores each of them as   *)
(* an entry of its own under a key Elasticsearch generates.                 *)

\* a second document carrying the id of Doc(i)
Twin(i) == [id |-> DocIds[i], question |-> "What else is it?", answer |-> "It is that too."]

\* the lists fetch_documents may return
FetchedDocuments ==
    { <<>>, <<Doc(1), Doc(2)>>, <<Doc(1), Doc(1)>>, <<Doc(1), Doc(2), Twin(1)>>, Ranked }

\* es_client.index(index=INDEX_NAME, document=doc) for each document in turn
index_documents(documents) ==
    [i \in 1..Len(documents) |-> [es_id |-> i, source |-> documents[i]]]

\* the hits of a query every entry matches, each hit's _source in index order
Hits(index) == [i \in 1..Len(index) |-> index[i].source]

IndexedRankings == { Hits(index_documents(d)) : d \in FetchedDocuments }

IndexedSearchReplies == SearchRepliesWith(IndexedRankings, {1})

InvokeIndexed == InvokeWith(RawQueries, TimedChoices, SearchTypes)

RefineIndexed == RefineWith(ChatRepliesWith(RefinedTexts \ {""}, "", TimedUsages, {1}))

SearchVectorIndexed == SearchVectorWith(IndexedSearchReplies)

SearchHybridElseIndexed == SearchHybridElseWith(IndexedSearchReplies)

GenerateIndexed == GenerateWith(ChatRepliesWith(AnswerTexts, "", TimedUsages, {1}))

EvaluateIndexed ==
    EvaluateWith(ChatRepliesWith(TimedEvalContents, EvalShape("none", FALSE, "", FALSE, ""),
                                 TimedUsages, {1}))

NextIndexed ==
    \/ InvokeIndexed
    \/ RefineIndexed
    \/ SearchVectorIndexed
    \/ SearchHybridElseIndexed
    \/ GenerateIndexed
    \/ EvaluateIndexed
    \/ CostAndReturn
    \/ Leave

SpecIndexed == Init /\ [][NextIndexed]_vars

\* the prompt has been built from search_results
PromptBuilt == pc \in {"evaluate_relevance", "calculate_openai_cost", "returned"} \/ RaisedAt("llm")

\* C14: in every search mode and for every index content, the search result
\* handed to build_prompt has at most 5 documents and no two of them carry
\* the same id.
C14_AtMostFiveDistinctIds ==
    PromptBuilt =>
        /\ Len(search_results) <= Size
        /\ \A i, j \in 1..Len(search_results) :
              search_results[i].id = search_results[j].id => i = j

----------------------------------------------------------------------------
(* The prompt *)

\* the number of pieces of the prompt before the context, and per candidate
HeaderLen == Len(build_prompt("", <<>>))

EntryLen == Len(RenderDoc(Doc(1))) + 1

\* C15: build_prompt is a function of (query, search_results) alone: the
\* prompt is the fixed instructions, the query, and then for each candidate,
\* in rank order, its id, its question and its answer under their labels,
\* the candidates separated by a blank line; nothing else enters it, so the
\* same query and search result always give the same prompt.
C15_PromptIsFunctionOfQueryAndResults ==
    PromptBuilt =>
        LET n == Len(search_results)
            at(i) == HeaderLen + EntryLen * (i - 1)
        IN  /\ Len(prompt) = HeaderLen + (IF n = 0 THEN 0 ELSE EntryLen * n - 1)
            /\ SubSeq(prompt, 1, HeaderLen) =
                  <<PromptRole, PromptOnlyContext, PromptFallback,
                    "QUESTION: ", query, "CONTEXT:">>
            /\ \A i \in 1..n :
                  /\ SubSeq(prompt, at(i) + 1, at(i) + EntryLen - 1) =
                        <<"id: ", search_results[i].id,
                          "\nquestion: ", search_results[i].question,
                          "\nanswer: ", search_results[i].answer>>
                  /\ i < n => prompt[at(i) + EntryLen] = "\n\n"

\* a prompt built from a full search result
C15_Witness ==
    /\ PromptBuilt
    /\ Len(search_results) = Size
    /\ prompt = build_prompt(query, search_results)
    /\ search_results[1].id # search_results[Size].id

\* `piece` occurs in the prompt `p`
Contains(p, piece) == \E i \in 1..Len(p) : p[i] = piece

\* the replies of Elasticsearch to a search nothing matches
ZeroMatches == { reply \in SearchReplies : reply.ok /\ reply.ranking = <<>> }

\* C16: a search with zero matches returns an empty result and raises
\* nothing, in each of the three search functions, and the prompt built from
\* an empty search result is not empty and contains the query and the
\* instruction to say that there is no answer.
C16_EmptyResultStillPrompts ==
    /\ \A reply \in ZeroMatches :
          LET vector == encode(query)
              rs == { elastic_search_text(query, reply),
                      elastic_search_knn("question_vector", vector, reply),
                      elastic_search_hybrid("question_vector", query, vector, reply) }
          IN  \A r \in rs : ~r.raised /\ r.value = <<>>
    /\ \A i \in 1..Len(calls) :
          calls[i].api = "search" /\ calls[i].ok /\ calls[i].hits = <<>> =>
              /\ ~RaisedAt(calls[i].stage)
              /\ calls[i].stage = "search_hybrid_else" => search_results = <<>>
    /\ PromptBuilt /\ search_results = <<>> =>
          /\ prompt # <<>>
          /\ Contains(prompt, query)
          /\ Contains(prompt, PromptFallback)

\* an invocation whose search matched nothing has returned its record
C16_Witness ==
    /\ pc = "returned"
    /\ search_results = <<>>
    /\ \E i \in 1..Len(calls) :
          /\ calls[i].stage = "search_hybrid_else"
          /\ calls[i].ok
          /\ calls[i].hits = <<>>
    /\ query # ""
    /\ Contains(prompt, query)

----------------------------------------------------------------------------
(* The evaluator *)

\* C17: the evaluation call always goes to the same fixed model through the
\* same client, whichever model was requested for the answer: the requested
\* model shows in the generation call and never in the evaluation call.
C17_EvaluationModelIsFixed ==
    \A i \in 1..Len(calls) :
        /\ calls[i].stage = "evaluate_relevance" =>
              /\ calls[i].model = model_name(<<"openai", "gpt-4o-mini">>)
              /\ calls[i].via = "openai_client"
        /\ calls[i].stage = "llm" => calls[i].model = model_name(model_choice)

\* an answer generated by a model of another provider has been evaluated
C17_Witness ==
    /\ pc = "calculate_openai_cost"
    /\ model_choice = <<"ollama", "phi3">>
    /\ CallsAt("llm")[1].via = "ollama_client"
    /\ CallsAt("evaluate_relevance")[1].ok

----------------------------------------------------------------------------
(* The cost. Prices are whole numbers of 1e-7 USD, so the sums below are    *)
(* exact; the code's floating-point product, sum and quotient each round    *)
(* monotonically and keep the order shown here.                             *)

\* token counts up to which the price is compared
MaxCostTok == 4

\* a usage with the given prompt and completion counts
UsageOf(p, c) == [prompt_tokens |-> p, completion_tokens |-> c, total_tokens |-> p + c]

\* C18: for a priced model the cost never falls when the prompt tokens or
\* the completion tokens grow, the other count held fixed, and it is never
\* negative: this holds for the cost placed in a returned record against
\* every larger usage, and for every pair of counts up to MaxCostTok.
C18_CostMonotoneNonNegative ==
    pc = "returned" =>
        LET cost(p, c) == calculate_openai_cost(model_choice, UsageOf(p, c))
            billed == outcome.value.openai_cost
        IN  /\ model_choice \in PricedModels
            /\ billed >= 0
            /\ billed = cost(gen.tokens.prompt_tokens, gen.tokens.completion_tokens).value
            /\ \A p, c \in 0..MaxCostTok :
                  /\ ~cost(p, c).raised
                  /\ cost(p, c).value >= 0
                  /\ cost(p + 1, c).value >= cost(p, c).value
                  /\ cost(p, c + 1).value >= cost(p, c).value
                  /\ p >= gen.tokens.prompt_tokens /\ c >= gen.tokens.completion_tokens
                        => cost(p, c).value >= billed

\* a record billed for both prompt and completion tokens
C18_Witness ==
    /\ pc = "returned"
    /\ gen.tokens.prompt_tokens > 0
    /\ gen.tokens.completion_tokens > 0
    /\ outcome.value.openai_cost >
          calculate_openai_cost(model_choice, UsageOf(gen.tokens.prompt_tokens, 0)).value

----------------------------------------------------------------------------
(* Which search feeds the prompt *)

\* the search functions called so far, in order
SearchesRun == [i \in 1..Len(SearchCalls) |-> SearchCalls[i].via]

\* the search call whose result search_results holds
LastSearch == SearchCalls[Len(SearchCalls)]

\* C20 as stated: for a request with search type Hybrid the result of the
\* hybrid search is never what build_prompt receives, the text search
\* running after it.
C20_HybridNeverFeedsPrompt ==
    PromptBuilt /\ search_type = "Hybrid" =>
        LastSearch.via # "elastic_search_hybrid"

\* C20, amended: for search type Hybrid the hybrid search is the only search
\* run and its result is what build_prompt receives; the search type whose
\* own result never reaches build_prompt is Vector, where the k-NN search is
\* followed by the text search and the text result is used; for Text the
\* text search alone runs.
C20_HybridFeedsPromptVectorDoesNot ==
    PromptBuilt =>
        /\ search_results = LastSearch.hits
        /\ prompt = build_prompt(query, LastSearch.hits)
        /\ search_type = "Hybrid" => SearchesRun = <<"elastic_search_hybrid">>
        /\ search_type = "Vector" =>
              SearchesRun = <<"elastic_search_knn", "elastic_search_text">>
        /\ search_type = "Text" => SearchesRun = <<"elastic_search_text">>

\* a Hybrid request whose prompt carries the hybrid search's documents
C20_Witness ==
    /\ pc = "returned"
    /\ search_type = "Hybrid"
    /\ LastSearch.via = "elastic_search_hybrid"
    /\ LastSearch.hits # <<>>
    /\ Contains(prompt, LastSearch.hits[1].id)

----------------------------------------------------------------------------
(* Concurrent invocations. Two callers run get_answer at the same time,     *)
(* their steps interleaved in any order, while request handlers save        *)
(* conversations to the database. Each invocation has a frame of its own;   *)
(* `heard` keeps, per invocation, the replies its calls received.           *)

Invocations == {"a", "b"}

\* one set of locals shared by every invocation, as module-level state would be
SharedFrame(i) == frames["a"]

\* the locals of invocation i
FrameOf(i) == frames[i]

ConversationIds == {"c1", "c2"}

\* db.save_conversation: INSERT INTO conversations; the primary key rejects
\* a second row with the same id, the exception passing through `finally`.
\* The value returned here is the tables after the call.
save_conversation(tables, conversation_id, question, answer_data) ==
    IF \E row \in tables.conversations : row.id = conversation_id
    THEN Raise("UniqueViolation", <<>>)
    ELSE Return([tables EXCEPT !.conversations =
                    @ \cup {[id |-> conversation_id, question |-> question,
                             answer |-> answer_data.answer]}], <<>>)

\* the statement at f.pc waits for a collaborator's reply
CallsOut(f) ==
    \/ f.pc \in {"improve_query", "search_hybrid_else", "llm", "evaluate_relevance"}
    \/ f.pc = "search_vector" /\ f.search_type = "Vector"

\* the statement at f.pc runs without a collaborator
RunsAlone(f) ==
    \/ f.pc = "calculate_openai_cost"
    \/ f.pc = "search_vector" /\ f.search_type # "Vector"

\* a reply to no call
NoReply == [ok |-> FALSE, ranking |-> <<>>, elapsed |-> 1]

\* the statement at f.pc, given the reply it waits for
get_answer_step(f, reply) ==
    CASE f.pc = "improve_query"         -> refine_step(f, reply)
      [] f.pc = "search_vector"         -> search_vector_step(f, reply)
      [] f.pc = "search_hybrid_else"    -> search_hybrid_else_step(f, reply)
      [] f.pc = "llm"                   -> generate_step(f, reply)
      [] f.pc = "evaluate_relevance"    -> evaluate_step(f, reply)
      [] f.pc = "calculate_openai_cost" -> cost_and_return_step(f)
      [] OTHER                          -> f

RECURSIVE get_answer_from(_, _)
\* get_answer run on its own from frame f, its calls answered by `replies`
\* in turn, as far as the replies reach
get_answer_from(f, replies) ==
    IF RunsAlone(f) THEN get_answer_from(get_answer_step(f, NoReply), replies)
    ELSE IF CallsOut(f) /\ replies # <<>>
    THEN get_answer_from(get_answer_step(f, Head(replies)), Tail(replies))
    ELSE f

\* get_answer(query, model_choice, search_type) run on its own
get_answer(q, m, s, replies) == get_answer_from(EnteredFrame(q, m, s), replies)

TwoChoices == {<<"openai", "gpt-4o-mini">>, <<"ollama", "phi3">>}

TwoModes == {"Text", "Vector"}

TwoRefineReplies == ChatRepliesWith(RefinedTexts \ {""}, "", TimedUsages, {1})

TwoGenerateReplies == ChatRepliesWith(AnswerTexts, "", TimedUsages, {1})

TwoEvalContents ==
    { c \in EvalContents : c.form = "prose" \/ (c.form = "object" /\ c.rel = "RELEVANT") }

TwoEvaluateReplies ==
    ChatRepliesWith(TwoEvalContents, EvalShape("none", FALSE, "", FALSE, ""), TimedUsages, {1})

\* the variables of the single invocation, at rest here
single ==
    <<pc, raw_query, model_choice, search_type, query, search_results,
      prompt, gen, ev, evaluation, calls, outcome>>

InitTwo ==
    /\ pc = "idle"
    /\ raw_query = ""
    /\ model_choice = <<>>
    /\ search_type = ""
    /\ query = ""
    /\ search_results = <<>>
    /\ prompt = <<>>
    /\ gen = NoGen
    /\ ev = NoEval
    /\ evaluation = NoEvaluation
    /\ calls = <<>>
    /\ outcome = Pending
    /\ frames = [i \in Invocations |-> IdleFrame]
    /\ heard = [i \in Invocations |-> <<>>]
    /\ db = EmptyTables
    /\ session_state = NoSession
    /\ response = NoResponse

\* invocation i moves on to frame f, having received `received`
Advance(i, f, received) ==
    /\ frames' = [frames EXCEPT ![i] = f]
    /\ heard' = [heard EXCEPT ![i] = @ \o received]
    /\ UNCHANGED <<single, db, session_state, response>>

EnterOf(i) ==
    /\ FrameOf(i).pc = "idle"
    /\ \E q \in RawQueries, m \in TwoChoices, s \in TwoModes :
          Advance(i, EnteredFrame(q, m, s), <<>>)

RefineOf(i) ==
    /\ FrameOf(i).pc = "improve_query"
    /\ \E reply \in TwoRefineReplies :
          Advance(i, refine_step(FrameOf(i), reply), <<reply>>)

SearchVectorOf(i) ==
    /\ FrameOf(i).pc = "search_vector"
    /\ IF FrameOf(i).search_type = "Vector"
       THEN \E reply \in SearchReplies :
               Advance(i, search_vector_step(FrameOf(i), reply), <<reply>>)
       ELSE Advance(i, search_vector_step(FrameOf(i), NoReply), <<>>)

SearchHybridElseOf(i) ==
    /\ FrameOf(i).pc = "search_hybrid_else"
    /\ \E reply \in SearchReplies :
          Advance(i, search_hybrid_else_step(FrameOf(i), reply), <<reply>>)

GenerateOf(i) ==
    /\ FrameOf(i).pc = "llm"
    /\ \E reply \in TwoGenerateReplies :
          Advance(i, generate_step(FrameOf(i), reply), <<reply>>)

EvaluateOf(i) ==
    /\ FrameOf(i).pc = "evaluate_relevance"
    /\ \E reply \in TwoEvaluateReplies :
          Advance(i, evaluate_step(FrameOf(i), reply), <<reply>>)

CostAndReturnOf(i) ==
    /\ FrameOf(i).pc = "calculate_openai_cost"
    /\ Advance(i, cost_and_return_step(FrameOf(i)), <<>>)

\* the caller of invocation i has its record or its exception
LeaveOf(i) ==
    /\ FrameOf(i).pc \in {"returned", "raised"}
    /\ frames' = [frames EXCEPT ![i] = IdleFrame]
    /\ heard' = [heard EXCEPT ![i] = <<>>]
    /\ UNCHANGED <<single, db, session_state, response>>

\* a request handler saves a conversation
SaveConversation ==
    /\ \E id \in ConversationIds, q \in RawQueries, a \in AnswerTexts :
          LET r == save_conversation(db, id, q, [answer |-> a])
          IN  db' = IF r.raised THEN db ELSE r.value
    /\ UNCHANGED <<single, frames, heard, session_state, response>>

NextTwo ==
    \/ \E i \in Invocations : EnterOf(i)
    \/ \E i \in Invocations : RefineOf(i)
    \/ \E i \in Invocations : SearchVectorOf(i)
    \/ \E i \in Invocations : SearchHybridElseOf(i)
    \/ \E i \in Invocations : GenerateOf(i)
    \/ \E i \in Invocations : EvaluateOf(i)
    \/ \E i \in Invocations : CostAndReturnOf(i)
    \/ \E i \in Invocations : LeaveOf(i)
    \/ SaveConversation

SpecTwo == InitTwo /\ [][NextTwo]_vars

\* what invocation i has done is what get_answer does on its own, given the
\* same arguments and the replies i received, and every call it made went to
\* Elasticsearch or to a chat model
SameAsAlone(i) ==
    LET f == frames[i]
    IN  f.pc # "idle" =>
          /\ get_answer_from(f, <<>>) =
                get_answer(f.raw_query, f.model_choice, f.search_type, heard[i])
          /\ \A k \in 1..Len(f.calls) :
                f.calls[k].api \in {"search", "chat.completions.create"}

\* a step of an invocation leaves the tables as they are
PipelineLeavesTables == frames' # frames => db' = db

\* C19: get_answer keeps its state in its own locals: however the steps of
\* two invocations interleave, and whatever is saved to the database
\* meanwhile, each invocation does and returns what it would on its own
\* with the same arguments and the same replies, and no step of an
\* invocation changes the database.
C19_InvocationsAreIsolated ==
    /\ [](\A i \in Invocations : SameAsAlone(i))
    /\ [][PipelineLeavesTables]_vars

\* two invocations with different arguments have both returned, with
\* different records, while a conversation was saved
C19_Witness ==
    /\ frames["a"].pc = "returned"
    /\ frames["b"].pc = "returned"
    /\ frames["a"].search_type # frames["b"].search_type
    /\ frames["a"].outcome # frames["b"].outcome
    /\ heard["a"] # heard["b"]
    /\ db.conversations # {}

----------------------------------------------------------------------------
(* The price table *)

\* the price of 1000 prompt tokens, in 1e-7 USD (0.0015 USD and 0.03 USD)
PromptPricePer1000(choice) ==
    IF choice = <<"openai", "gpt-3.5-turbo">> THEN 15000 ELSE 300000

\* the price of 1000 completion tokens, in 1e-7 USD (0.002 USD and 0.06 USD)
CompletionPricePer1000(choice) ==
    IF choice = <<"openai", "gpt-3.5-turbo">> THEN 20000 ELSE 600000

\* C21: the cost in a returned record is the price-table value for the
\* requested model and the generation call's prompt and completion tokens,
\* (prompt_tokens x prompt price + completion_tokens x completion price) /
\* 1000; the reported total and the tokens of the evaluation call do not
\* enter it, and the tokens of the refinement call are not even kept.
C21_CostIsPriceTableLookup ==
    pc = "returned" =>
        LET v == outcome.value
        IN  /\ v.model_used = model_choice
            /\ v.prompt_tokens = gen.tokens.prompt_tokens
            /\ v.completion_tokens = gen.tokens.completion_tokens
            /\ v.openai_cost * 1000 =
                  v.prompt_tokens * PromptPricePer1000(v.model_used)
                  + v.completion_tokens * CompletionPricePer1000(v.model_used)

\* a record whose reported total is off and whose evaluation used other
\* token counts than its generation
C21_Witness ==
    /\ pc = "returned"
    /\ outcome.value.total_tokens #
          outcome.value.prompt_tokens + outcome.value.completion_tokens
    /\ outcome.value.eval_prompt_tokens # outcome.value.prompt_tokens
    /\ outcome.value.eval_completion_tokens # outcome.value.completion_tokens
    /\ outcome.value.openai_cost > 0

----------------------------------------------------------------------------
(* Which query the stages see *)

\* improve_query has returned in this invocation
Refined == \E i \in 1..Len(calls) : calls[i].stage = "improve_query" /\ calls[i].ok

\* C25: once improve_query has returned, the query it returned (one of
\* RefinedTexts, none of which is the raw query) is the one
\* every later stage uses: the text of the text and hybrid searches, the
\* text embedded for the k-NN and hybrid searches, the question of the
\* generation prompt and the question given to the evaluator; the raw query
\* appears in the refinement call only.
C25_RefinedQueryIsUsedThroughout ==
    \A i \in 1..Len(calls) :
        LET c == calls[i]
        IN  /\ c.stage = "improve_query" => Contains(c.input, raw_query)
            /\ c.stage # "improve_query" =>
                  /\ Refined
                  /\ query \in RefinedTexts
                  /\ raw_query \notin RefinedTexts
                  /\ raw_query # query => ~Contains(c.input, raw_query)
                  /\ c.via = "elastic_search_text" => c.input = <<query>>
                  /\ c.via = "elastic_search_knn" =>
                        c.input = <<"question_vector">> \o encode(query)
                  /\ c.via = "elastic_search_hybrid" =>
                        c.input = <<"question_vector", query>> \o encode(query)
                  /\ c.stage = "llm" => c.input = build_prompt(query, search_results)
                  /\ c.stage = "evaluate_relevance" =>
                        c.input = evaluation_prompt(query, gen.answer)

\* an invocation whose query was rewritten has gone through every stage
C25_Witness ==
    /\ pc = "returned"
    /\ search_type = "Vector"
    /\ query # raw_query
    /\ query # ""
    /\ Contains(prompt, query)
    /\ ~Contains(prompt, raw_query)

----------------------------------------------------------------------------
(* The database functions of db.py *)

\* db.save_feedback: INSERT INTO feedback; conversation_id REFERENCES
\* conversations(id), so a row for an id without a conversation is rejected.
\* The value returned here is the tables after the call.
save_feedback(tables, conversation_id, feedback) ==
    IF \E row \in tables.conversations : row.id = conversation_id
    THEN Return([tables EXCEPT !.feedback =
                    Append(@, [conversation_id |-> conversation_id,
                               feedback |-> feedback])], <<>>)
    ELSE Raise("ForeignKeyViolation", <<>>)

\* a column value of a fetched row: NULL comes back as None
SqlNull == [null |-> TRUE]

SqlInt(n) == [null |-> FALSE, value |-> n]

RECURSIVE Total(_)
Total(values) == IF values = <<>> THEN 0 ELSE values[1] + Total(Tail(values))

\* SUM over the given values, one per row: NULL when there are no rows
SqlSum(values) == IF values = <<>> THEN SqlNull ELSE SqlInt(Total(values))

\* db.get_feedback_stats
get_feedback_stats(tables) ==
    LET rows == tables.feedback
    IN  [thumbs_up   |-> SqlSum([i \in 1..Len(rows) |->
                                  IF rows[i].feedback > 0 THEN 1 ELSE 0]),
         thumbs_down |-> SqlSum([i \in 1..Len(rows) |->
                                  IF rows[i].feedback < 0 THEN 1 ELSE 0])]

----------------------------------------------------------------------------
(* The request handlers *)

\* get_answer(query, model_choice, search_type) run from entry to exit, its
\* calls answered by the replies of `script`, one per calling statement
get_answer_script(q, m, s, script) ==
    LET entered == {EnteredFrame(q, m, s)}
        refined ==
            { IF f.pc = "improve_query" THEN refine_step(f, script.refine) ELSE f :
                f \in entered }
        searched_vector ==
            { IF f.pc = "search_vector" THEN search_vector_step(f, script.vector) ELSE f :
                f \in refined }
        searched ==
            { IF f.pc = "search_hybrid_else"
              THEN search_hybrid_else_step(f, script.search) ELSE f :
                f \in searched_vector }
        generated ==
            { IF f.pc = "llm" THEN generate_step(f, script.generate) ELSE f :
                f \in searched }
        evaluated ==
            { IF f.pc = "evaluate_relevance" THEN evaluate_step(f, script.evaluate) ELSE f :
                f \in generated }
        left ==
            { IF f.pc = "calculate_openai_cost" THEN cost_and_return_step(f) ELSE f :
                f \in evaluated }
    IN  CHOOSE f \in left : TRUE

\* the call get_answer(*args): Python binds the positional arguments to the
\* three parameters of get_answer before its body runs
left_get_answer(f) ==
    IF f.pc = "returned" THEN Return(f.outcome.value, f.calls)
    ELSE Raise(f.outcome.exc, f.calls)

call_get_answer(args, replies) ==
    IF Len(args) # Len(<<"query", "model_choice", "search_type">>)
    THEN Raise("TypeError", <<>>)
    ELSE left_get_answer(get_answer_script(args[1], args[2], args[3], replies))

\* what a handler hands back: the exception it raised, if any, and the
\* tables as it leaves them
Handled(exc, tables) == [exc |-> exc, tables |-> tables]

\* backend.py handle_ask_question. The module does not import streamlit, so
\* the name `st` in its last statement is not bound.
after_get_answer(answer_data, tables) ==
    IF answer_data.raised THEN Handled(answer_data.exc, tables)
    ELSE Handled("NameError", tables)

handle_ask_question(tables, user_input, course, choice, mode, replies) ==
    after_get_answer(call_get_answer(<<user_input, course, choice, mode>>, replies),
                     tables)

\* how a key of the JSON body of a request arrives
FieldKinds == {"missing", "empty", "given"}

\* the truth value of data.get(key): None and '' are false
truthy(kind) == kind = "given"

\* the validation of POST /ask with the course left unchecked
all_present_but_course(data) ==
    truthy(data.question) /\ truthy(data.model_choice) /\ truthy(data.search_type)

\* all([user_input, course, model_choice, search_type])
all_present(data) ==
    /\ truthy(data.question)
    /\ truthy(data.course)
    /\ truthy(data.model_choice)
    /\ truthy(data.search_type)

\* backend_flask.py handle_ask_question (POST /ask): the status of the
\* response, whether get_answer was called, and the tables afterwards. An
\* exception leaving the view is answered with status 500. As in backend.py
\* the name `st` is not bound.
post_ask(tables, data, user_input, course, choice, mode, replies) ==
    IF ~all_present(data)
    THEN [status |-> 400, called |-> FALSE, tables |-> tables]
    ELSE [status |->
              IF handle_ask_question(tables, user_input, course, choice, mode,
                                     replies).exc = ""
              THEN 200 ELSE 500,
          called |-> TRUE,
          tables |-> tables]

\* main.py submit_feedback (POST /feedback): an exception of save_feedback
\* becomes HTTPException(status_code=500)
submit_feedback(tables, conversation_id, feedback) ==
    LET r == save_feedback(tables, conversation_id, feedback)
    IN  IF r.raised THEN [status |-> 500, tables |-> tables]
        ELSE [status |-> 200, tables |-> r.value]

----------------------------------------------------------------------------
(* One browser session against the backend. The database outlives the      *)
(* sessions: it starts with whatever earlier use left in it.               *)

\* rows a feedback table may hold, and how far the session's count may move
MaxRows == 2

MaxCount == 2

Courses == {"llm-zoomcamp"}

\* the values the feedback column holds
FeedbackValues == {-1, 0, 1}

\* the id of a conversation stored before the session
EarlierId == "c0"

RECURSIVE SeqsUpTo(_, _)
\* the sequences over S of length at most n
SeqsUpTo(S, n) ==
    IF n = 0 THEN {<<>>}
    ELSE LET shorter == SeqsUpTo(S, n - 1)
         IN  shorter \cup { Append(t, x) : t \in shorter, x \in S }

\* what the tables may hold when the session starts
StoredTables ==
    {EmptyTables} \cup
    { [conversations |-> {[id |-> EarlierId, question |-> q, answer |-> a]},
       feedback |-> rows] :
        q \in RawQueries, a \in AnswerTexts,
        rows \in SeqsUpTo({ [conversation_id |-> EarlierId, feedback |-> v] :
                              v \in FeedbackValues }, MaxRows) }

\* the replies get_answer receives, one per calling statement: every call
\* succeeding, or the first one failing
AskScripts ==
    { [refine |-> r, vector |-> v, search |-> v, generate |-> g, evaluate |-> e] :
        r \in TwoRefineReplies,
        v \in { x \in SearchReplies : x.ok },
        g \in { x \in TwoGenerateReplies : x.ok },
        e \in { x \in TwoEvaluateReplies : x.ok } }

\* the replies to a text search request that finds documents and is judged
\* by a well-formed evaluation
PostScripts ==
    { t \in AskScripts :
        t.refine.ok /\ t.search.ranking # <<>> /\ t.evaluate.content.form = "object" }

InitSession ==
    /\ pc = "idle"
    /\ raw_query = ""
    /\ model_choice = <<>>
    /\ search_type = ""
    /\ query = ""
    /\ search_results = <<>>
    /\ prompt = <<>>
    /\ gen = NoGen
    /\ ev = NoEval
    /\ evaluation = NoEvaluation
    /\ calls = <<>>
    /\ outcome = Pending
    /\ frames = <<>>
    /\ heard = <<>>
    /\ db \in StoredTables
    /\ session_state = NoSession
    /\ response = NoResponse

\* frontend.py main, lines 103-108: the first run of the page draws the
\* conversation id with uuid4 and sets the count to 0; later runs keep both
StartSession ==
    /\ ~session_state.started
    /\ \E id \in ConversationIds :
          session_state' = [started |-> TRUE, conversation_id |-> id, count |-> 0]
    /\ UNCHANGED <<single, frames, heard, db, response>>

\* the user asks a question and backend.py handle_ask_question serves it
AskQuestion ==
    /\ session_state.started
    /\ \E q \in RawQueries, course \in Courses, m \in TwoChoices, s \in TwoModes :
          \E replies \in AskScripts :
              \E h \in {handle_ask_question(db, q, course, m, s, replies)} :
                  /\ db' = h.tables
                  /\ response' =
                        [op |-> "handle_ask_question",
                         question |-> q,
                         pipeline_returns |->
                             get_answer_script(q, m, s, replies).pc = "returned",
                         exc |-> h.exc]
    /\ UNCHANGED <<single, frames, heard, session_state>>

\* frontend.py main, lines 150-165: a click on +1 or -1 changes the count and
\* then posts the feedback, whose response is not looked at
ClickFeedback ==
    /\ session_state.started
    /\ Len(db.feedback) < MaxRows
    /\ \E feedback \in {1, -1} :
          /\ session_state.count + feedback \in -MaxCount..MaxCount
          /\ session_state' = [session_state EXCEPT !.count = @ + feedback]
          /\ LET r == submit_feedback(db, session_state.conversation_id, feedback)
             IN  /\ db' = r.tables
                 /\ response' = [op |-> "submit_feedback", feedback |-> feedback,
                                 status |-> r.status]
    /\ UNCHANGED <<single, frames, heard>>

\* frontend.py main, lines 179-182: every run of the page fetches the statistics
FetchFeedbackStats ==
    /\ response' = [op |-> "get_feedback_stats", stats |-> get_feedback_stats(db)]
    /\ UNCHANGED <<single, frames, heard, db, session_state>>

\* a client posts to /ask of backend_flask.py with any of the four keys
\* missing, empty or given
PostAsk ==
    /\ \E data \in [question : FieldKinds, course : FieldKinds,
                    model_choice : FieldKinds, search_type : FieldKinds],
          q \in RawQueries, course \in Courses, m \in TwoChoices :
          \E replies \in PostScripts :
              \E r \in {post_ask(db, data, q, course, m, "Text", replies)} :
                  /\ db' = r.tables
                  /\ response' = [op |-> "POST /ask", data |-> data,
                                  status |-> r.status, called |-> r.called,
                                  stored |-> r.tables # db]
    /\ UNCHANGED <<single, frames, heard, session_state>>

NextSession ==
    \/ StartSession
    \/ AskQuestion
    \/ ClickFeedback
    \/ FetchFeedbackStats
    \/ PostAsk

SpecSession == InitSession /\ [][NextSession]_vars

----------------------------------------------------------------------------
(* Properties of the session, the database and the HTTP handlers           *)

\* the feedback values stored for one conversation id, in insertion order
StoredFeedback(tables, conversation_id) ==
    LET own == SelectSeq(tables.feedback,
                         LAMBDA row : row.conversation_id = conversation_id)
    IN  [i \in 1..Len(own) |-> own[i].feedback]

\* C22: every ask of a session for which the pipeline returns an answer
\* leaves a conversation row for that question under the session's
\* conversation id. The code does not satisfy this: handle_ask_question
\* raises before the pipeline runs and never reaches save_conversation.
C22_EveryAnsweredAskIsStored ==
    (response.op = "handle_ask_question" /\ response.pipeline_returns)
        => \E row \in db.conversations :
              /\ row.id = session_state.conversation_id
              /\ row.question = response.question

\* C23: the feedback count of a session equals the sum of the feedback
\* values stored for the session's conversation id, so a feedback whose save
\* fails leaves the count unchanged. The code does not satisfy this: the
\* count changes before the save is attempted and the outcome of the save is
\* not looked at.
C23_CountEqualsStoredSum ==
    session_state.started
        => session_state.count =
              Total(StoredFeedback(db, session_state.conversation_id))

\* C24: for every feedback table, the empty one included, get_feedback_stats
\* returns integers: thumbs_up counts the rows with feedback > 0, thumbs_down
\* the rows with feedback < 0. The code does not satisfy this on the empty
\* table, where SUM yields NULL.
C24_StatsAreIntegerCounts ==
    response.op = "get_feedback_stats"
        => response.stats =
              [thumbs_up |->
                   SqlInt(Cardinality({ i \in 1..Len(db.feedback) :
                                          db.feedback[i].feedback > 0 })),
               thumbs_down |->
                   SqlInt(Cardinality({ i \in 1..Len(db.feedback) :
                                          db.feedback[i].feedback < 0 }))]

\* the keys of a POST /ask body that are missing or empty
Absent(data) ==
    { k \in {"question", "course", "model_choice", "search_type"} :
        data[k] # "given" }

====
